---------------------------- MODULE Spec2Model ----------------------------
(***************************************************************************)
(* Model of the multi-file merge engine, tools/file_merger.py.             *)
(*                                                                         *)
(* One invocation of merge_files_advanced is a small state machine: the    *)
(* load loop runs one step per input pair, then the stack path             *)
(* (reconcile, allow-list, combine) or the join path (locate keys, one     *)
(* pairwise merge per step, allow-list) runs, then the serializer.         *)
(*                                                                         *)
(* Python strings that the code inspects (column names, cell values,       *)
(* filenames, the join key) are sequences of one-character strings, so     *)
(* that lower(), strip(), title() and endswith() are computed and not      *)
(* assumed.  A pandas DataFrame is a record of a column list and a row     *)
(* list; cells are positional, because pandas allows two columns to carry  *)
(* the same label.  Every row carries a history field src = <<file,        *)
(* sheet, row>> that the program does not have; it records where the row   *)
(* was read.  Optional values are sequences of length 0 (None) or 1.       *)
(*                                                                         *)
(* pandas behaviour is modelled for pandas 2.x, where dtype=str columns    *)
(* are of object dtype.                                                    *)
(***************************************************************************)
EXTENDS Integers, Sequences, FiniteSets, TLC

VARIABLES
    files,          \* the input pairs: filename, parser outcome, tables read
    cfg,            \* the keyword arguments of the invocation
    pc,             \* position of the invocation
    fi,             \* index of the input pair the load loop is at
    dfs,            \* the loaded frames
    master_cols,    \* the master column list (stack mode)
    processed_dfs,  \* the frames with the key renamed (join mode)
    merged_df,      \* the combined table
    mi,             \* index of the next frame to merge (join mode)
    result,         \* the returned triple, once pc = "done"
    preview,        \* what preview_common_columns returned, once called
    response        \* the HTTP response of merge_advanced_api, once sent

vars ==
    <<files, cfg, pc, fi, dfs, master_cols, processed_dfs, merged_df, mi, result, preview,
      response>>

-----------------------------------------------------------------------------
(* Generic sequence helpers *)

None == <<>>

Some(x) == <<x>>

Range(s) == {s[i] : i \in 1..Len(s)}

RECURSIVE Pick(_, _)
Pick(s, keep) ==
    IF s = <<>> THEN <<>>
    ELSE (IF Head(keep) THEN <<Head(s)>> ELSE <<>>) \o Pick(Tail(s), Tail(keep))

RECURSIVE Flatten(_)
Flatten(ss) == IF ss = <<>> THEN <<>> ELSE Head(ss) \o Flatten(Tail(ss))

IsUnique(s) == \A i, j \in 1..Len(s) : s[i] = s[j] => i = j

-----------------------------------------------------------------------------
(* Python str methods *)

UpperChars ==
    <<"A","B","C","D","E","F","G","H","I","J","K","L","M",
      "N","O","P","Q","R","S","T","U","V","W","X","Y","Z">>

LowerChars ==
    <<"a","b","c","d","e","f","g","h","i","j","k","l","m",
      "n","o","p","q","r","s","t","u","v","w","x","y","z">>

IsUpperChar(ch) == \E i \in 1..26 : UpperChars[i] = ch

IsLowerChar(ch) == \E i \in 1..26 : LowerChars[i] = ch

LowerChar(ch) ==
    IF IsUpperChar(ch) THEN LowerChars[CHOOSE i \in 1..26 : UpperChars[i] = ch] ELSE ch

UpperChar(ch) ==
    IF IsLowerChar(ch) THEN UpperChars[CHOOSE i \in 1..26 : LowerChars[i] = ch] ELSE ch

IsSpace(ch) == ch = " "

lower(s) == [i \in 1..Len(s) |-> LowerChar(s[i])]

upper(s) == [i \in 1..Len(s) |-> UpperChar(s[i])]

title(s) ==
    [i \in 1..Len(s) |->
        IF i = 1 \/ ~(IsUpperChar(s[i-1]) \/ IsLowerChar(s[i-1]))
        THEN UpperChar(s[i]) ELSE LowerChar(s[i])]

RECURSIVE lstrip(_)
lstrip(s) == IF s # <<>> /\ IsSpace(Head(s)) THEN lstrip(Tail(s)) ELSE s

RECURSIVE rstrip(_)
rstrip(s) ==
    IF s # <<>> /\ IsSpace(s[Len(s)]) THEN rstrip(SubSeq(s, 1, Len(s) - 1)) ELSE s

strip(s) == rstrip(lstrip(s))

endswith(s, suffix) ==
    /\ Len(s) >= Len(suffix)
    /\ SubSeq(s, Len(s) - Len(suffix) + 1, Len(s)) = suffix

-----------------------------------------------------------------------------
(* String literals of the source *)

Source_File == <<"S","o","u","r","c","e","_","F","i","l","e">>

DotCsv == <<".","c","s","v">>

(* The missing-value marker of pandas; no Python string equals it. *)
NaN == <<"NaN">>

-----------------------------------------------------------------------------
(* pandas operations used by the engine *)

(* df.empty: any axis of length 0 *)
empty(df) == Len(df.columns) = 0 \/ Len(df.rows) = 0

(* Index.duplicated(): TRUE at every position whose label occurred before *)
duplicated(columns) ==
    [i \in 1..Len(columns) |-> \E j \in 1..(i - 1) : columns[j] = columns[i]]

(* df.loc[:, mask] *)
loc(df, mask) ==
    [df EXCEPT !.columns = Pick(df.columns, mask),
               !.rows = [r \in 1..Len(df.rows) |->
                            [df.rows[r] EXCEPT !.cells = Pick(@, mask)]]]

(* df[label] = scalar: overwrites every column carrying the label, or
   appends a new column when there is none *)
setitem(df, label, value) ==
    IF \E i \in 1..Len(df.columns) : df.columns[i] = label
    THEN [df EXCEPT !.rows = [r \in 1..Len(df.rows) |->
             [df.rows[r] EXCEPT !.cells =
                 [i \in 1..Len(df.columns) |->
                     IF df.columns[i] = label THEN value ELSE @[i]]]]]
    ELSE [df EXCEPT !.columns = Append(@, label),
                    !.rows = [r \in 1..Len(df.rows) |->
                                 [df.rows[r] EXCEPT !.cells = Append(@, value)]]]

(* Series.str.strip / upper / lower / title leave missing cells missing *)
str_strip(cell) == IF cell = NaN THEN NaN ELSE strip(cell)

str_upper(cell) == IF cell = NaN THEN NaN ELSE upper(cell)

str_lower(cell) == IF cell = NaN THEN NaN ELSE lower(cell)

str_title(cell) == IF cell = NaN THEN NaN ELSE title(cell)

(* positions of the columns of df that df[keys] selects: for every key in
   turn, every column carrying that label *)
getitem_positions(columns, keys) ==
    Flatten([k \in 1..Len(keys) |->
        Pick([i \in 1..Len(columns) |-> i],
             [i \in 1..Len(columns) |-> columns[i] = keys[k]])])

(* df[keys] with a list of labels; KeyError when a label is missing *)
getitem_ok(df, keys) == \A k \in 1..Len(keys) : keys[k] \in Range(df.columns)

getitem(df, keys) ==
    LET pos == getitem_positions(df.columns, keys)
    IN  [df EXCEPT !.columns = [p \in 1..Len(pos) |-> df.columns[pos[p]]],
                   !.rows = [r \in 1..Len(df.rows) |->
                                [df.rows[r] EXCEPT !.cells =
                                    LET old == @ IN [p \in 1..Len(pos) |-> old[pos[p]]]]]]

(* first-seen union of the column indexes, each made unique *)
RECURSIVE union_indexes(_, _)
union_indexes(cols, acc) ==
    IF cols = <<>> THEN acc
    ELSE union_indexes(Tail(cols),
                       IF Head(cols) \in Range(acc) THEN acc ELSE Append(acc, Head(cols)))

(* pd.concat(frames, ignore_index=True).  When all frames carry the same
   column index it is used as it is; otherwise the frames are reindexed to
   the unique union, which raises InvalidIndexError for a frame whose own
   column labels are not unique. *)
concat_same(frames) == \A k \in 1..Len(frames) : frames[k].columns = frames[1].columns

concat_ok(frames) ==
    concat_same(frames) \/ \A k \in 1..Len(frames) : IsUnique(frames[k].columns)

concat_columns(frames) ==
    IF concat_same(frames) THEN frames[1].columns
    ELSE union_indexes(Flatten([k \in 1..Len(frames) |-> frames[k].columns]), <<>>)

reindex_row(row, from, to) ==
    [row EXCEPT !.cells =
        [p \in 1..Len(to) |->
            IF to[p] \in Range(from)
            THEN row.cells[CHOOSE i \in 1..Len(from) : from[i] = to[p]]
            ELSE NaN]]

(* faulty variant: the frames are stacked last to first *)
concat_Reversed(frames) ==
    LET new_columns == concat_columns(frames)
        n == Len(frames)
    IN  [columns |-> new_columns,
         rows |-> Flatten([k \in 1..n |->
                    [r \in 1..Len(frames[n + 1 - k].rows) |->
                        reindex_row(frames[n + 1 - k].rows[r],
                                    frames[n + 1 - k].columns, new_columns)]])]

concat(frames) ==
    LET new_columns == concat_columns(frames)
    IN  [columns |-> new_columns,
         rows |-> Flatten([k \in 1..Len(frames) |->
                    IF frames[k].columns = new_columns THEN frames[k].rows
                    ELSE [r \in 1..Len(frames[k].rows) |->
                            reindex_row(frames[k].rows[r], frames[k].columns, new_columns)]])]

(* df.drop_duplicates(subset): a frame with an empty axis is returned as it
   is; an empty subset makes duplicated() fail unpacking ("not enough values
   to unpack"); otherwise the first of every group of rows that are equal
   (missing equals missing) on all columns labelled in subset is kept. *)
drop_duplicates_ok(df, subset) == empty(df) \/ subset # <<>>

subset_cells(df, row, subset) ==
    Pick(row.cells, [i \in 1..Len(df.columns) |-> df.columns[i] \in Range(subset)])

(* faulty variant: keep="last" *)
drop_duplicates_KeepLast(df, subset) ==
    IF empty(df) THEN df
    ELSE [df EXCEPT !.rows =
            Pick(df.rows,
                 [r \in 1..Len(df.rows) |->
                    ~\E q \in (r + 1)..Len(df.rows) :
                        subset_cells(df, df.rows[q], subset)
                            = subset_cells(df, df.rows[r], subset)])]

drop_duplicates(df, subset) ==
    IF empty(df) THEN df
    ELSE [df EXCEPT !.rows =
            Pick(df.rows,
                 [r \in 1..Len(df.rows) |->
                    ~\E q \in 1..(r - 1) :
                        subset_cells(df, df.rows[q], subset)
                            = subset_cells(df, df.rows[r], subset)])]

-----------------------------------------------------------------------------
(* Tabular loader and cleaning pipeline: the body of the load loop *)

is_csv(filename) == endswith(lower(filename), DotCsv)

(* the frames one input pair is read into; a CSV is one frame, a workbook
   is its first sheet or every sheet *)
df_list(file, all_sheets) ==
    IF is_csv(file.filename) THEN <<file.sheets[1]>>
    ELSE IF all_sheets THEN file.sheets ELSE <<file.sheets[1]>>

(* xls.sheet_names if all_sheets else [xls.sheet_names[0]], as positions *)
sheets_to_read(file, all_sheets) ==
    IF all_sheets THEN 1..Len(file.sheets) ELSE {1}

(* the parser call that raises for this input pair, "" when none does:
   read_csv on a buffer it cannot parse (the latin1 retry only catches
   UnicodeDecodeError), ExcelFile on a buffer that is not a workbook,
   read_excel on a malformed sheet among those read *)
read_error(file, all_sheets) ==
    IF is_csv(file.filename)
    THEN IF file.readable THEN "" ELSE "read_csv"
    ELSE IF ~file.readable THEN "ExcelFile"
         ELSE IF sheets_to_read(file, all_sheets) \cap file.malformed # {}
              THEN "read_excel" ELSE ""

(* the frame as the parser returns it, with the history fields added *)
df_read(tbl, f, s) ==
    [columns |-> tbl.columns,
     rows |-> [r \in 1..Len(tbl.rows) |-> [cells |-> tbl.rows[r], src |-> <<f, s, r>>]],
     file |-> f,
     sheet |-> s]

clean_columns(df) == [df EXCEPT !.columns = [i \in 1..Len(@) |-> strip(@[i])]]

add_source(df, filename, include_source_col, join_mode) ==
    IF include_source_col /\ join_mode = "stack"
    THEN setitem(df, Source_File, filename)
    ELSE df

(* faulty variant: duplicated(keep="last"), the last of the equal labels stays *)
drop_duplicate_columns_KeepLast(df) ==
    loc(df, [i \in 1..Len(df.columns) |->
                ~\E j \in (i + 1)..Len(df.columns) : df.columns[j] = df.columns[i]])

drop_duplicate_columns(df) ==
    IF \E i \in 1..Len(df.columns) : duplicated(df.columns)[i]
    THEN loc(df, [i \in 1..Len(df.columns) |-> ~duplicated(df.columns)[i]])
    ELSE df

(* df[col] = df[col].str.<how>() for every object column *)
str_apply(cell, how) ==
    CASE how = "strip" -> str_strip(cell)
      [] how = "upper" -> str_upper(cell)
      [] how = "lower" -> str_lower(cell)
      [] how = "title" -> str_title(cell)
      [] OTHER -> cell

map_cells(df, how) ==
    [df EXCEPT !.rows = [r \in 1..Len(df.rows) |->
        [df.rows[r] EXCEPT !.cells = [i \in 1..Len(@) |-> str_apply(@[i], how)]]]]

apply_trim(df, trim_whitespace) ==
    IF trim_whitespace THEN map_cells(df, "strip") ELSE df

apply_casing(df, casing) ==
    IF casing # "none" THEN map_cells(df, casing) ELSE df

clean_table(tbl, filename, f, s, c) ==
    apply_casing(
        apply_trim(
            drop_duplicate_columns(
                add_source(clean_columns(df_read(tbl, f, s)),
                           filename, c.include_source_col, c.join_mode)),
            c.trim_whitespace),
        c.casing)

(* faulty variant: break in place of continue, an empty table ends its file *)
loaded_Break(file, f, c) ==
    LET l == df_list(file, c.all_sheets)
    IN  Flatten([s \in 1..Len(l) |->
            IF \E e \in 1..s : empty(l[e]) THEN <<>>
            ELSE <<clean_table(l[s], file.filename, f, s, c)>>])

(* the frames one input pair appends to dfs *)
loaded(file, f, c) ==
    LET l == df_list(file, c.all_sheets)
    IN  Flatten([s \in 1..Len(l) |->
            IF empty(l[s]) THEN <<>>
            ELSE <<clean_table(l[s], file.filename, f, s, c)>>])

-----------------------------------------------------------------------------
(* Column reconciler (stack mode) *)

column_set(df, case_insensitive) ==
    {IF case_insensitive THEN lower(c) ELSE c :
        c \in {x \in Range(df.columns) : x # Source_File}}

column_sets(frames, case_insensitive) ==
    [k \in 1..Len(frames) |-> column_set(frames[k], case_insensitive)]

(* faulty variant: set.union in place of set.intersection *)
set_intersection_Union(sets) == UNION {sets[k] : k \in 1..Len(sets)}

set_intersection(sets) == {x \in sets[1] : \A k \in 1..Len(sets) : x \in sets[k]}

shared_columns(frames, case_insensitive) ==
    set_intersection(column_sets(frames, case_insensitive))

first_df_cols(frames) == SelectSeq(frames[1].columns, LAMBDA c : c # Source_File)

intersection_master(frames, case_insensitive) ==
    LET shared == shared_columns(frames, case_insensitive)
    IN  IF case_insensitive
        THEN SelectSeq(first_df_cols(frames), LAMBDA c : lower(c) \in shared)
        ELSE SelectSeq(first_df_cols(frames), LAMBDA c : c \in shared)

RECURSIVE union_scan(_, _, _, _)
union_scan(cols, case_insensitive, seen, acc) ==
    IF cols = <<>> THEN acc
    ELSE LET c == Head(cols)
             match_val == IF case_insensitive THEN lower(c) ELSE c
         IN  IF c = Source_File \/ match_val \in seen
             THEN union_scan(Tail(cols), case_insensitive, seen, acc)
             ELSE union_scan(Tail(cols), case_insensitive,
                             seen \cup {match_val}, Append(acc, c))

union_master(frames, case_insensitive) ==
    union_scan(Flatten([k \in 1..Len(frames) |-> frames[k].columns]),
               case_insensitive, {}, <<>>)

(* faulty variant: the allow-list is walked, so its order is the result's *)
select_master_ListOrder(master, selected_columns, case_insensitive) ==
    IF selected_columns = <<>> THEN master
    ELSE IF case_insensitive
         THEN SelectSeq(selected_columns,
                        LAMBDA e : \E i \in 1..Len(master) : lower(master[i]) = lower(e))
         ELSE SelectSeq(selected_columns, LAMBDA e : e \in Range(master))

(* faulty variant: the allow-list is compared as spelled whatever the flag *)
select_master_Exact(master, selected_columns, case_insensitive) ==
    IF selected_columns = <<>> THEN master
    ELSE SelectSeq(master, LAMBDA c : c \in Range(selected_columns))

select_master(master, selected_columns, case_insensitive) ==
    IF selected_columns = <<>> THEN master
    ELSE IF case_insensitive
         THEN LET sel_lower == {lower(selected_columns[i]) : i \in 1..Len(selected_columns)}
              IN  SelectSeq(master, LAMBDA c : lower(c) \in sel_lower)
         ELSE SelectSeq(master, LAMBDA c : c \in Range(selected_columns))

-----------------------------------------------------------------------------
(* Combiner, stack mode *)

(* the new label of column c: the first master column equal to it ignoring
   case, or c itself when the rename map has no entry for it *)
rename_map(c, master) ==
    IF c # Source_File /\ \E j \in 1..Len(master) : lower(c) = lower(master[j])
    THEN master[CHOOSE j \in 1..Len(master) :
                    /\ lower(c) = lower(master[j])
                    /\ \A h \in 1..(j - 1) : lower(c) # lower(master[h])]
    ELSE c

rename(df, master, case_insensitive) ==
    IF case_insensitive
    THEN [df EXCEPT !.columns = [i \in 1..Len(@) |-> rename_map(@[i], master)]]
    ELSE df

cols_to_keep(df, master, include_source_col) ==
    SelectSeq(master, LAMBDA c : c \in Range(df.columns))
        \o (IF include_source_col THEN <<Source_File>> ELSE <<>>)

final_dfs(frames, master, c) ==
    [k \in 1..Len(frames) |->
        LET df == rename(frames[k], master, c.case_insensitive)
        IN  getitem(df, cols_to_keep(df, master, c.include_source_col))]

final_dfs_ok(frames, master, c) ==
    \A k \in 1..Len(frames) :
        LET df == rename(frames[k], master, c.case_insensitive)
        IN  getitem_ok(df, cols_to_keep(df, master, c.include_source_col))

cols_to_check(df) == SelectSeq(df.columns, LAMBDA c : c # Source_File)

-----------------------------------------------------------------------------
(* pd.merge(left, right, on=key, how=how, suffixes=("", suffix)) *)

(* code-point order of the characters the model uses *)
CodePoints ==
    <<" ", ".", "0","1","2","3","4","5","6","7","8","9">> \o UpperChars \o <<"_">> \o LowerChars

ord(ch) == CHOOSE i \in 1..Len(CodePoints) : CodePoints[i] = ch

RECURSIVE str_less(_, _)
str_less(a, b) ==
    IF b = <<>> THEN FALSE
    ELSE IF a = <<>> THEN TRUE
    ELSE IF Head(a) = Head(b) THEN str_less(Tail(a), Tail(b))
    ELSE ord(Head(a)) < ord(Head(b))

(* sort order of key values: text lexicographically, missing last *)
key_less(a, b) ==
    IF a = NaN THEN FALSE
    ELSE IF b = NaN THEN TRUE
    ELSE str_less(a, b)

RECURSIVE sorted(_)
sorted(S) ==
    IF S = {} THEN <<>>
    ELSE LET m == CHOOSE x \in S : \A y \in S \ {x} : key_less(x, y)
         IN  <<m>> \o sorted(S \ {m})

count(columns, label) == Cardinality({i \in 1..Len(columns) : columns[i] = label})

key_of(df, row, on) == row.cells[CHOOSE i \in 1..Len(df.columns) : df.columns[i] = on]

key_values(df, on) == {key_of(df, df.rows[r], on) : r \in 1..Len(df.rows)}

(* the columns of right other than the key, which is taken from left *)
right_keep(right, on) == [i \in 1..Len(right.columns) |-> right.columns[i] # on]

right_labels(left, right, on, suffix) ==
    LET rest == Pick(right.columns, right_keep(right, on))
    IN  [i \in 1..Len(rest) |->
            IF rest[i] \in Range(left.columns) THEN rest[i] \o suffix ELSE rest[i]]

(* MergeError: the suffix makes two labels of right equal that were not *)
suffix_duplicates(left, right, on, suffix) ==
    LET rest == Pick(right.columns, right_keep(right, on))
        rlabels == right_labels(left, right, on, suffix)
    IN  \E i \in 1..Len(rest) :
            /\ duplicated(rlabels)[i]
            /\ ~duplicated(rest)[i]

merge_ok(left, right, on, how, suffix) ==
    /\ how \in {"inner", "left", "right", "outer"}
    /\ count(left.columns, on) = 1
    /\ count(right.columns, on) = 1
    /\ ~suffix_duplicates(left, right, on, suffix)

(* one output row: the cells of the left row (missing when there is none,
   the key then taken from the right row), then the right row's other cells *)
merged_row(left, right, on, l, r) ==
    LET nl == Len(left.columns)
        rest == IF r = 0 THEN [i \in 1..(Len(right.columns) - 1) |-> NaN]
                ELSE Pick(right.rows[r].cells, right_keep(right, on))
        lcells == IF l # 0 THEN left.rows[l].cells
                  ELSE [i \in 1..nl |->
                          IF left.columns[i] = on
                          THEN key_of(right, right.rows[r], on) ELSE NaN]
    IN  [cells |-> lcells \o rest,
         src |-> IF l # 0 THEN left.rows[l].src ELSE right.rows[r].src]

matches_of(left, right, on, l) ==
    Pick([r \in 1..Len(right.rows) |-> r],
         [r \in 1..Len(right.rows) |->
            key_of(right, right.rows[r], on) = key_of(left, left.rows[l], on)])

matched_by(left, right, on, r) ==
    Pick([l \in 1..Len(left.rows) |-> l],
         [l \in 1..Len(left.rows) |->
            key_of(left, left.rows[l], on) = key_of(right, right.rows[r], on)])

(* faulty variant: how is not passed on, every merge is an inner join *)
merge_pairs_Inner(left, right, on, how) ==
    Flatten([l \in 1..Len(left.rows) |->
        LET m == matches_of(left, right, on, l)
        IN  [k \in 1..Len(m) |-> <<l, m[k]>>]])

(* the pairs <<left row, right row>> of the result, 0 for no row, in the
   order pandas returns them: left order for inner and left, right order
   for right, sorted by key for outer *)
merge_pairs(left, right, on, how) ==
    LET inner_of(l) ==
            LET m == matches_of(left, right, on, l)
            IN  [k \in 1..Len(m) |-> <<l, m[k]>>]
        left_of(l) == IF inner_of(l) = <<>> THEN <<<<l, 0>>>> ELSE inner_of(l)
        right_of(r) ==
            LET m == matched_by(left, right, on, r)
            IN  IF m = <<>> THEN <<<<0, r>>>> ELSE [k \in 1..Len(m) |-> <<m[k], r>>]
        for_key(v) ==
            LET ls == Pick([l \in 1..Len(left.rows) |-> l],
                           [l \in 1..Len(left.rows) |-> key_of(left, left.rows[l], on) = v])
                rs == Pick([r \in 1..Len(right.rows) |-> r],
                           [r \in 1..Len(right.rows) |-> key_of(right, right.rows[r], on) = v])
            IN  IF rs = <<>> THEN [k \in 1..Len(ls) |-> <<ls[k], 0>>]
                ELSE IF ls = <<>> THEN [k \in 1..Len(rs) |-> <<0, rs[k]>>]
                ELSE Flatten([a \in 1..Len(ls) |-> [b \in 1..Len(rs) |-> <<ls[a], rs[b]>>]])
        keys == sorted(key_values(left, on) \cup key_values(right, on))
    IN  CASE how = "inner" -> Flatten([l \in 1..Len(left.rows) |-> inner_of(l)])
          [] how = "left" -> Flatten([l \in 1..Len(left.rows) |-> left_of(l)])
          [] how = "right" -> Flatten([r \in 1..Len(right.rows) |-> right_of(r)])
          [] OTHER -> Flatten([k \in 1..Len(keys) |-> for_key(keys[k])])

merge(left, right, on, how, suffix) ==
    LET pairs == merge_pairs(left, right, on, how)
    IN  [columns |-> left.columns \o right_labels(left, right, on, suffix),
         rows |-> [k \in 1..Len(pairs) |->
                     merged_row(left, right, on, pairs[k][1], pairs[k][2])]]

-----------------------------------------------------------------------------
(* Combiner, join mode *)

Digits == <<"0","1","2","3","4","5","6","7","8","9">>

RECURSIVE str_int(_)
str_int(i) ==
    IF i < 10 THEN <<Digits[i + 1]>>
    ELSE str_int(i \div 10) \o <<Digits[(i % 10) + 1]>>

(* faulty variant: enumerate without start=2 *)
file_suffix_NoStart(i) == <<"_", "F">> \o str_int(i - 2)

(* f"_F{i}" *)
file_suffix(i) == <<"_", "F">> \o str_int(i)

(* faulty variant: the test for the key is left out *)
missing_key_Never(join_key) == FALSE

(* not join_key: None and "" are both falsy *)
missing_key(join_key) == join_key = <<>>

has_key(df, join_key) ==
    \E i \in 1..Len(df.columns) : lower(df.columns[i]) = lower(join_key)

actual_key(df, join_key) ==
    df.columns[CHOOSE i \in 1..Len(df.columns) :
                  /\ lower(df.columns[i]) = lower(join_key)
                  /\ \A h \in 1..(i - 1) : lower(df.columns[h]) # lower(join_key)]

(* df.rename(columns={actual_key: join_key}) *)
standardize_key(df, join_key) ==
    LET k == actual_key(df, join_key)
    IN  IF k # join_key
        THEN [df EXCEPT !.columns = [i \in 1..Len(@) |-> IF @[i] = k THEN join_key ELSE @[i]]]
        ELSE df

(* index in dfs of the first frame without the key, 0 when all have it *)
first_without_key(frames, join_key) ==
    IF \A k \in 1..Len(frames) : has_key(frames[k], join_key) THEN 0
    ELSE CHOOSE k \in 1..Len(frames) :
            /\ ~has_key(frames[k], join_key)
            /\ \A h \in 1..(k - 1) : has_key(frames[h], join_key)

join_cols(df, join_key, selected_columns) ==
    <<join_key>> \o SelectSeq(df.columns,
                              LAMBDA c : c \in Range(selected_columns) /\ c # join_key)

-----------------------------------------------------------------------------
(* Results *)

NoFrame == [columns |-> <<>>, rows |-> <<>>]

NoResult == [buffer |-> None, columns |-> None, message |-> <<"">>]

Failure(message) == [buffer |-> None, columns |-> None, message |-> message]

MergeError(exception) == Failure(<<"Merge Error: ", exception>>)

(* faulty variant: the handler lets the exception escape *)
except_Reraise(exception) == [result |-> NoResult, pc |-> "raised"]

(* except Exception as e: the exception is turned into a failure triple *)
except(exception) == [result |-> MergeError(exception), pc |-> "done"]

(* faulty variant: the filename is compared as spelled *)
any_excel_CaseSensitive(fs) == \E k \in 1..Len(fs) : ~endswith(fs[k].filename, DotCsv)

any_excel(fs) == \E k \in 1..Len(fs) : ~is_csv(fs[k].filename)

extension(fs) == IF any_excel(fs) THEN ".xlsx" ELSE ".csv"

(* the bytes written: the format and the table rendered *)
output(df, fs) ==
    [format |-> IF any_excel(fs) THEN "xlsx" ELSE "csv",
     columns |-> df.columns,
     rows |-> [r \in 1..Len(df.rows) |-> df.rows[r].cells]]

Success(df, fs, join_mode) ==
    [buffer |-> Some(output(df, fs)),
     columns |-> Some(df.columns),
     message |-> <<"merged_data_", join_mode, extension(fs)>>]

-----------------------------------------------------------------------------
(* The invocation, step by step *)

Frame(df) == [columns |-> df.columns, rows |-> df.rows]

(* if not files: return None, None, "No files provided." *)
CheckFiles ==
    /\ pc = "start"
    /\ IF files = <<>>
       THEN /\ result' = Failure(<<"No files provided.">>)
            /\ pc' = "done"
       ELSE /\ pc' = "load"
            /\ UNCHANGED result
    /\ UNCHANGED <<response, preview, files, cfg, fi, dfs, master_cols, processed_dfs, merged_df, mi>>

(* one iteration of the load loop; a parser exception leaves the function
   through the except clause *)
LoadFile ==
    /\ pc = "load"
    /\ fi <= Len(files)
    /\ IF read_error(files[fi], cfg.all_sheets) # ""
       THEN /\ result' = except(read_error(files[fi], cfg.all_sheets)).result
            /\ pc' = except(read_error(files[fi], cfg.all_sheets)).pc
            /\ UNCHANGED <<fi, dfs>>
       ELSE /\ dfs' = dfs \o loaded(files[fi], fi, cfg)
            /\ fi' = fi + 1
            /\ pc' = IF fi = Len(files) THEN "loaded" ELSE "load"
            /\ UNCHANGED result
    /\ UNCHANGED <<response, preview, files, cfg, master_cols, processed_dfs, merged_df, mi>>

(* if not dfs: return None, None, "No valid data found." *)
NoValidData ==
    /\ pc = "loaded"
    /\ dfs = <<>>
    /\ result' = Failure(<<"No valid data found.">>)
    /\ pc' = "done"
    /\ UNCHANGED <<response, preview, files, cfg, fi, dfs, master_cols, processed_dfs, merged_df, mi>>

(* the master column list of the strategy *)
Reconcile ==
    /\ pc = "loaded"
    /\ dfs # <<>>
    /\ cfg.join_mode = "stack"
    /\ IF cfg.strategy = "intersection"
       THEN IF shared_columns(dfs, cfg.case_insensitive) = {}
            THEN /\ result' = Failure(<<"No common columns found.">>)
                 /\ pc' = "done"
                 /\ UNCHANGED master_cols
            ELSE /\ master_cols' = intersection_master(dfs, cfg.case_insensitive)
                 /\ pc' = "select"
                 /\ UNCHANGED result
       ELSE /\ master_cols' = union_master(dfs, cfg.case_insensitive)
            /\ pc' = "select"
            /\ UNCHANGED result
    /\ UNCHANGED <<response, preview, files, cfg, fi, dfs, processed_dfs, merged_df, mi>>

(* the allow-list applied to the master column list *)
SelectColumns ==
    /\ pc = "select"
    /\ master_cols' = select_master(master_cols, cfg.selected_columns, cfg.case_insensitive)
    /\ pc' = "combine"
    /\ UNCHANGED <<response, preview, files, cfg, fi, dfs, processed_dfs, merged_df, mi, result>>

(* rename, restrict, concatenate, de-duplicate *)
StackCombine ==
    /\ pc = "combine"
    /\ IF ~final_dfs_ok(dfs, master_cols, cfg)
       THEN /\ result' = except("KeyError").result
            /\ pc' = except("KeyError").pc
            /\ UNCHANGED merged_df
       ELSE LET frames == final_dfs(dfs, master_cols, cfg)
            IN  IF ~concat_ok(frames)
                THEN /\ result' = except("InvalidIndexError").result
                     /\ pc' = except("InvalidIndexError").pc
                     /\ UNCHANGED merged_df
                ELSE LET stacked == concat(frames)
                     IN  IF ~cfg.remove_duplicates
                         THEN /\ merged_df' = stacked
                              /\ pc' = "serialize"
                              /\ UNCHANGED result
                         ELSE IF ~drop_duplicates_ok(stacked, cols_to_check(stacked))
                              THEN /\ result' = except("ValueError").result
                                   /\ pc' = except("ValueError").pc
                                   /\ UNCHANGED merged_df
                              ELSE /\ merged_df' =
                                        drop_duplicates(stacked, cols_to_check(stacked))
                                   /\ pc' = "serialize"
                                   /\ UNCHANGED result
    /\ UNCHANGED <<response, preview, files, cfg, fi, dfs, master_cols, processed_dfs, mi>>

(* the key located and renamed in every frame *)
JoinKeys ==
    /\ pc = "loaded"
    /\ dfs # <<>>
    /\ cfg.join_mode # "stack"
    /\ IF missing_key(cfg.join_key)
       THEN /\ result' = Failure(<<"Join key is required for horizontal merge.">>)
            /\ pc' = "done"
            /\ UNCHANGED <<processed_dfs, merged_df>>
       ELSE IF first_without_key(dfs, cfg.join_key) # 0
            THEN /\ result' = Failure(<<"Key '", cfg.join_key, "' not found in file ",
                                        first_without_key(dfs, cfg.join_key), ".">>)
                 /\ pc' = "done"
                 /\ UNCHANGED <<processed_dfs, merged_df>>
            ELSE /\ processed_dfs' =
                        [k \in 1..Len(dfs) |-> standardize_key(dfs[k], cfg.join_key)]
                 /\ merged_df' = Frame(standardize_key(dfs[1], cfg.join_key))
                 /\ pc' = IF Len(dfs) = 1 THEN "join_select" ELSE "merge"
                 /\ UNCHANGED result
    /\ UNCHANGED <<response, preview, files, cfg, fi, dfs, master_cols, mi>>

(* one iteration of the sequential merge *)
JoinMerge ==
    /\ pc = "merge"
    /\ mi <= Len(processed_dfs)
    /\ IF ~merge_ok(merged_df, processed_dfs[mi], cfg.join_key, cfg.join_mode, file_suffix(mi))
       THEN /\ result' = except("MergeError").result
            /\ pc' = except("MergeError").pc
            /\ UNCHANGED <<merged_df, mi>>
       ELSE /\ merged_df' = merge(merged_df, processed_dfs[mi], cfg.join_key,
                                  cfg.join_mode, file_suffix(mi))
            /\ mi' = mi + 1
            /\ pc' = IF mi = Len(processed_dfs) THEN "join_select" ELSE "merge"
            /\ UNCHANGED result
    /\ UNCHANGED <<response, preview, files, cfg, fi, dfs, master_cols, processed_dfs>>

(* the allow-list applied to the joined table; the key is kept *)
JoinSelect ==
    /\ pc = "join_select"
    /\ merged_df' =
          IF cfg.selected_columns # <<>>
          THEN getitem(merged_df, join_cols(merged_df, cfg.join_key, cfg.selected_columns))
          ELSE merged_df
    /\ pc' = "serialize"
    /\ UNCHANGED <<response, preview, files, cfg, fi, dfs, master_cols, processed_dfs, mi, result>>

(* write the table and return the success triple *)
Serialize ==
    /\ pc = "serialize"
    /\ result' = Success(merged_df, files, cfg.join_mode)
    /\ pc' = "done"
    /\ UNCHANGED <<response, preview, files, cfg, fi, dfs, master_cols, processed_dfs, merged_df, mi>>

-----------------------------------------------------------------------------
(* preview_common_columns *)

nrows == 5

NoPreview == [called |-> FALSE, columns |-> <<>>, sample |-> <<>>]

(* the try block around the read: a file whose read raises is passed over *)
preview_read_ok(file) ==
    IF is_csv(file.filename) THEN file.readable
    ELSE file.readable /\ 1 \notin file.malformed

(* the first sheet, at most nrows rows of it *)
preview_df(file) ==
    LET t == file.sheets[1]
    IN  [columns |-> t.columns,
         rows |-> SubSeq(t.rows, 1, IF Len(t.rows) < nrows THEN Len(t.rows) ELSE nrows)]

preview_cols(file) ==
    LET df == preview_df(file) IN [i \in 1..Len(df.columns) |-> strip(df.columns[i])]

(* astype(str).replace('nan', '') *)
preview_cell(cell) == IF cell = NaN \/ cell = <<"n","a","n">> THEN <<>> ELSE cell

(* set by the first input pair only, and only when it was read *)
first_file_cols_ordered(fs) ==
    IF fs # <<>> /\ preview_read_ok(fs[1]) THEN preview_cols(fs[1]) ELSE <<>>

(* faulty variant: without the test i == 0 every input read overwrites the grid *)
preview_sample_Overwrite(fs) ==
    LET read == SelectSeq(fs, preview_read_ok)
    IN  IF read # <<>>
        THEN LET df == preview_df(read[Len(read)])
             IN  <<preview_cols(read[Len(read)])>> \o
                     [r \in 1..Len(df.rows) |->
                         [i \in 1..Len(df.rows[r]) |-> preview_cell(df.rows[r][i])]]
        ELSE <<>>

preview_sample(fs) ==
    IF fs # <<>> /\ preview_read_ok(fs[1])
    THEN LET df == preview_df(fs[1])
         IN  <<preview_cols(fs[1])>> \o
                 [r \in 1..Len(df.rows) |->
                     [i \in 1..Len(df.rows[r]) |-> preview_cell(df.rows[r][i])]]
    ELSE <<>>

target_set(file, case_insensitive) ==
    {IF case_insensitive THEN lower(c) ELSE c : c \in Range(preview_cols(file))}

preview_column_sets(fs, case_insensitive) ==
    LET read == SelectSeq(fs, preview_read_ok)
    IN  [k \in 1..Len(read) |-> target_set(read[k], case_insensitive)]

preview_intersection(fs, case_insensitive) ==
    LET shared == set_intersection(preview_column_sets(fs, case_insensitive))
    IN  SelectSeq(first_file_cols_ordered(fs),
                  LAMBDA c : (IF case_insensitive THEN lower(c) ELSE c) \in shared)

(* the orders in which a Python set of strings can be iterated: the order
   follows the strings' hashes, which are salted per process *)
set_orders(S) ==
    {p \in [1..Cardinality(S) -> S] : \A x \in S : \E i \in 1..Cardinality(S) : p[i] = x}

(* the union loop walks each set in its iteration order *)
RECURSIVE preview_union(_, _)
preview_union(sets, seen) ==
    IF sets = <<>> THEN {<<>>}
    ELSE {p \o rest : p \in set_orders(Head(sets) \ seen),
                      rest \in preview_union(Tail(sets), seen \cup Head(sets))}

(* the pairs (common, preview_sample) a call can return *)
preview_common_columns(fs, strategy, case_insensitive) ==
    IF preview_column_sets(fs, case_insensitive) = <<>>
    THEN {[columns |-> <<>>, sample |-> <<>>]}
    ELSE {[columns |-> common, sample |-> preview_sample(fs)] :
            common \in IF strategy = "intersection"
                       THEN {preview_intersection(fs, case_insensitive)}
                       ELSE preview_union(preview_column_sets(fs, case_insensitive), {})}

(* a call of preview_common_columns on the inputs, before the merge *)
Preview ==
    /\ pc = "start"
    /\ ~preview.called
    /\ \E p \in preview_common_columns(files, cfg.strategy, cfg.case_insensitive) :
          preview' = [called |-> TRUE, columns |-> p.columns, sample |-> p.sample]
    /\ UNCHANGED <<response, files, cfg, pc, fi, dfs, master_cols, processed_dfs, merged_df, mi,
                   result>>

-----------------------------------------------------------------------------
(* merge_advanced_api: the endpoint /api/file/merge-common-columns *)

NoResponse == [sent |-> FALSE, status_code |-> 0, error |-> <<>>]

HTTPException(status_code, detail) == [status_code |-> status_code, detail |-> detail]

(* str(e) of an HTTPException: "<status_code>: <detail>" where the class
   defines __str__, the empty string where it inherits Exception.__str__
   with no args; the installed framework version decides *)
str_HTTPException(e) == {str_int(e.status_code) \o <<": ">> \o e.detail, <<>>}

(* JSONResponse(status_code=exc.status_code, content={"error": exc.detail}) *)
http_exception_handler(exc) ==
    [sent |-> TRUE, status_code |-> exc.status_code, error |-> exc.detail]

StreamingResponse == [sent |-> TRUE, status_code |-> 200, error |-> <<>>]

(* what the body of the try statement raises: the HTTPException of
   `if output is None` *)
raised_in_try(r) ==
    IF r.buffer = None THEN Some(HTTPException(400, r.message)) ELSE None

(* the response to a request whose engine call returned r: whatever the try
   body raises is caught by `except Exception as e` and raised again as
   HTTPException(500, str(e)) *)
merge_advanced_api(r) ==
    IF raised_in_try(r) # None
    THEN {http_exception_handler(HTTPException(500, detail)) :
            detail \in str_HTTPException(raised_in_try(r)[1])}
    ELSE {StreamingResponse}

(* the endpoint answers once the engine has returned *)
Respond ==
    /\ pc = "done"
    /\ ~response.sent
    /\ response' \in merge_advanced_api(result)
    /\ UNCHANGED <<preview, files, cfg, pc, fi, dfs, master_cols, processed_dfs, merged_df, mi,
                   result>>

-----------------------------------------------------------------------------
(* Inputs *)

SeqsUpTo(S, n) == UNION {[1..k -> S] : k \in 0..n}

(* the column labels a parser returns are pairwise distinct (pandas renames
   repeated header cells) *)
Headers(names, n) == {h \in SeqsUpTo(names, n) : h # <<>> /\ IsUnique(h)}

c_id == <<"i","d">>

c_ID == <<"I","D">>

c_Name == <<"N","a","m","e">>

c_email == <<"e","m","a","i","l">>

c_source_file == <<"s","o","u","r","c","e","_","f","i","l","e">>

c_v == <<"v">>

c_zz == <<"z","z">>

c_v_F2 == <<"v","_","F","2">>

f_a == <<"a",".","c","s","v">>

f_B == <<"B",".","C","S","V">>

f_bad == <<"b","a","d",".","c","s","v">>

DefaultCfg ==
    [strategy |-> "intersection", case_insensitive |-> FALSE,
     remove_duplicates |-> FALSE, all_sheets |-> FALSE, selected_columns |-> <<>>,
     trim_whitespace |-> FALSE, casing |-> "none", include_source_col |-> TRUE,
     join_mode |-> "stack", join_key |-> <<>>]

InitWith(inputs, cfgs) ==
    /\ files \in inputs
    /\ cfg \in cfgs
    /\ pc = "start"
    /\ fi = 1
    /\ dfs = <<>>
    /\ master_cols = <<>>
    /\ processed_dfs = <<>>
    /\ merged_df = NoFrame
    /\ mi = 2
    /\ result = NoResult
    /\ preview = NoPreview
    /\ response = NoResponse

(* an input pair: the filename, whether the buffer parses at all, the tables
   the parser reads from it, and the sheets whose read raises *)
CsvFile(name, tbl) ==
    [filename |-> name, readable |-> TRUE, sheets |-> <<tbl>>, malformed |-> {}]

Unreadable(name) ==
    [filename |-> name, readable |-> FALSE, sheets |-> <<>>, malformed |-> {}]

Workbook(name, tbls, bad) ==
    [filename |-> name, readable |-> TRUE, sheets |-> tbls, malformed |-> bad]

(* Column-level inputs: every table has one row whose cell under a column
   is that column's label as read, so a cell tells the column it came from *)
MaxFiles == 2

MaxCols == 2

ColNames == {c_id, c_ID, c_Name, c_email}

ColTable(h) == [columns |-> h, rows |-> <<h>>]

ColTables ==
    {ColTable(h) : h \in Headers(ColNames, MaxCols)}
        \cup {ColTable(<<c_id, Source_File>>),
              ColTable(<<Source_File, c_email>>),
              ColTable(<<c_source_file, c_id>>),
              [columns |-> <<c_id>>, rows |-> <<>>]}

ColFiles == {CsvFile(f_a, t) : t \in ColTables} \cup {Unreadable(f_bad)}

ColCfgs ==
    {[DefaultCfg EXCEPT !.strategy = s, !.case_insensitive = ci, !.include_source_col = inc] :
        s \in {"intersection", "union"}, ci \in BOOLEAN, inc \in BOOLEAN}

InitCols == InitWith(SeqsUpTo(ColFiles, MaxFiles), ColCfgs)

(* Allow-list inputs: the column-level tables with provenance on, and
   allow-lists in and against master order, in another letter case, and
   naming no column *)
SelTables ==
    {ColTable(h) : h \in Headers(ColNames, MaxCols)}
        \cup {[columns |-> <<c_id>>, rows |-> <<>>]}

SelFiles == {CsvFile(f_a, t) : t \in SelTables}

SelLists == {<<c_Name, c_id>>, <<c_id, c_Name>>, <<c_ID, c_email>>, <<c_zz>>}

SelCfgs ==
    {[DefaultCfg EXCEPT !.strategy = s, !.case_insensitive = ci, !.selected_columns = sel] :
        s \in {"intersection", "union"}, ci \in BOOLEAN, sel \in SelLists}

InitSel == InitWith(SeqsUpTo(SelFiles, MaxFiles), SelCfgs)

(* Header inputs: tables whose header cells differ only in surrounding
   spaces; the one row of a table has in every cell the position of the
   cell as read *)
c_id_lead == <<" ","i","d">>

c_id_trail == <<"i","d"," ">>

DupNames == {c_id, c_id_lead, c_id_trail, c_v}

DupTable(h) == [columns |-> h, rows |-> <<[i \in 1..Len(h) |-> str_int(i)]>>]

DupTables ==
    {DupTable(h) : h \in Headers(DupNames, MaxCols)}
        \cup {DupTable(<<c_id_lead, c_v, c_id>>),
              [columns |-> <<c_id>>, rows |-> <<>>]}

DupFiles == {CsvFile(f_a, t) : t \in DupTables}

DupCfgs ==
    {[DefaultCfg EXCEPT !.strategy = s, !.include_source_col = inc, !.trim_whitespace = tw] :
        s \in {"intersection", "union"}, inc \in BOOLEAN, tw \in BOOLEAN}

InitDup == InitWith(SeqsUpTo(DupFiles, MaxFiles), DupCfgs)

(* Row-level inputs: tables of several rows over two cell values that the
   cleaning flags make equal *)
MaxRowFiles == 2

MaxRows == 2

v_a == <<"a">>

v_A == <<" ","A">>

v_b == <<"b">>

RowCells == {v_a, v_A}

RowTables ==
    {[columns |-> <<c_id>>, rows |-> [r \in 1..Len(ks) |-> <<ks[r]>>]] :
        ks \in SeqsUpTo(RowCells, MaxRows)}
    \cup {[columns |-> <<c_email, c_id>>, rows |-> [r \in 1..Len(ks) |-> <<v_b, ks[r]>>]] :
        ks \in SeqsUpTo(RowCells, MaxRows)}

RowFiles == {CsvFile(f_a, t) : t \in RowTables}

RowCfgs ==
    {[DefaultCfg EXCEPT !.strategy = s, !.remove_duplicates = dd,
                        !.include_source_col = inc, !.selected_columns = sel] :
        s \in {"intersection", "union"}, dd \in BOOLEAN, inc \in BOOLEAN,
        sel \in {<<>>, <<c_zz>>}}

InitRows == InitWith(SeqsUpTo(RowFiles, MaxRowFiles), RowCfgs)

(* Cleaning inputs: one-row tables, filenames in both cases, every
   combination of the cleaning flags *)
CleanTables ==
    {[columns |-> <<c_id>>, rows |-> <<<<v_A>>>>],
     [columns |-> <<c_id>>, rows |-> <<<<v_a>>, <<v_A>>>>],
     [columns |-> <<c_id, Source_File>>, rows |-> <<<<v_a, v_b>>>>],
     [columns |-> <<c_id>>, rows |-> <<>>]}

CleanFiles == {CsvFile(f, t) : f \in {f_a, f_B}, t \in CleanTables}

CleanCfgs ==
    {[DefaultCfg EXCEPT !.strategy = "union", !.trim_whitespace = tw, !.casing = cs,
                        !.remove_duplicates = dd, !.include_source_col = inc] :
        tw \in BOOLEAN, cs \in {"none", "upper", "lower", "title"},
        dd \in BOOLEAN, inc \in BOOLEAN}

InitClean == InitWith(SeqsUpTo(CleanFiles, MaxFiles), CleanCfgs)

(* Join inputs: tables keyed by id (or ID), with a value column whose cell
   tells the key of its row *)
MaxJoinFiles == 3

MaxKeys == 2

k_1 == <<"1">>

k_2 == <<"2">>

KeyValues == {k_1, k_2, NaN}

KeySets == {K \in SUBSET KeyValues : Cardinality(K) <= MaxKeys}

JoinRow(h, key) == [i \in 1..Len(h) |-> IF lower(h[i]) = c_id THEN key ELSE h[i] \o key]

JoinTable(h, ks) == [columns |-> h, rows |-> [r \in 1..Len(ks) |-> JoinRow(h, ks[r])]]

JoinTables ==
    {JoinTable(<<c_id, c_v>>, sorted(K)) : K \in KeySets}
        \cup {JoinTable(<<c_v, c_ID>>, <<k>>) : k \in {k_1, k_2}}
        \cup {JoinTable(<<c_v>>, <<k_1>>),
              JoinTable(<<c_ID, c_id>>, <<k_1>>),
              JoinTable(<<c_id, c_v>>, <<k_2, k_1, k_2>>),
              JoinTable(<<c_id, c_v, c_v_F2>>, <<k_1>>)}

JoinFiles == {CsvFile(f_a, t) : t \in JoinTables}

JoinCfgs ==
    {[DefaultCfg EXCEPT !.join_mode = how, !.join_key = c_id] :
        how \in {"inner", "left", "right", "outer"}}
    \cup {[DefaultCfg EXCEPT !.join_mode = "inner", !.join_key = <<>>],
          [DefaultCfg EXCEPT !.join_mode = "left", !.join_key = c_id,
                             !.selected_columns = <<c_v>>]}

InitJoin == InitWith(SeqsUpTo(JoinFiles, MaxJoinFiles), JoinCfgs)

(* Load inputs: input pairs of every kind the load loop tells apart: CSV
   files with rows, without rows and unparsable, workbooks of two sheets
   (one without rows, one malformed), and files named .txt whose content
   is or is not a workbook *)
MaxLoadFiles == 3

f_x == <<"x",".","x","l","s","x">>

f_txt == <<"d",".","t","x","t">>

t_kv == [columns |-> <<c_id, c_v>>, rows |-> <<<<k_1, v_a>>>>]

t_v == [columns |-> <<c_v>>, rows |-> <<<<v_b>>>>]

t_norows == [columns |-> <<c_id, c_zz>>, rows |-> <<>>]

LoadFiles ==
    {CsvFile(f_a, t_kv), CsvFile(f_a, t_v), CsvFile(f_a, t_norows), Unreadable(f_bad),
     CsvFile(f_B, t_kv),
     Workbook(f_x, <<t_kv, t_v>>, {}),
     Workbook(f_x, <<t_norows, t_kv>>, {}),
     Workbook(f_x, <<t_kv, t_kv>>, {2}),
     Workbook(f_txt, <<t_kv>>, {}),
     Unreadable(f_txt)}

LoadCfgs ==
    {[DefaultCfg EXCEPT !.strategy = "union", !.all_sheets = all,
                        !.join_mode = how, !.join_key = c_id] :
        all \in BOOLEAN, how \in {"stack", "outer"}}

InitLoad == InitWith(SeqsUpTo(LoadFiles, MaxLoadFiles), LoadCfgs)

(* Preview inputs: tables of two columns, of case variants, with header
   cells equal after trimming, without rows, with more than nrows rows, an
   unparsable file and a workbook of two sheets *)
t_long == [columns |-> <<c_id>>, rows |-> [r \in 1..(nrows + 1) |-> <<str_int(r)>>]]

PrevFiles ==
    {CsvFile(f_a, ColTable(<<c_id, c_v>>)),
     CsvFile(f_a, ColTable(<<c_ID>>)),
     CsvFile(f_a, ColTable(<<c_v>>)),
     CsvFile(f_a, DupTable(<<c_id_lead, c_id>>)),
     CsvFile(f_a, t_norows),
     CsvFile(f_a, t_long),
     Unreadable(f_bad),
     Workbook(f_x, <<t_v, t_kv>>, {})}

PrevCfgs ==
    {[DefaultCfg EXCEPT !.strategy = s, !.case_insensitive = ci, !.all_sheets = all] :
        s \in {"intersection", "union"}, ci \in BOOLEAN, all \in BOOLEAN}

InitPrev == InitWith(SeqsUpTo(PrevFiles, MaxFiles), PrevCfgs)

-----------------------------------------------------------------------------
(* Specifications *)

NextStack ==
    \/ CheckFiles
    \/ LoadFile
    \/ NoValidData
    \/ Reconcile
    \/ SelectColumns
    \/ StackCombine
    \/ Serialize

NextJoin ==
    \/ CheckFiles
    \/ LoadFile
    \/ NoValidData
    \/ JoinKeys
    \/ JoinMerge
    \/ JoinSelect
    \/ Serialize

Next ==
    \/ CheckFiles
    \/ LoadFile
    \/ NoValidData
    \/ Reconcile
    \/ SelectColumns
    \/ StackCombine
    \/ JoinKeys
    \/ JoinMerge
    \/ JoinSelect
    \/ Serialize

Init == InitCols \/ InitRows \/ InitClean \/ InitJoin \/ InitLoad \/ InitSel \/ InitDup

(* every invocation of the families below *)
Spec == Init /\ [][Next]_vars

SpecCols == InitCols /\ [][NextStack]_vars

SpecRows == InitRows /\ [][NextStack]_vars

SpecClean == InitClean /\ [][NextStack]_vars

SpecJoin == InitJoin /\ [][NextJoin]_vars

SpecLoad == InitLoad /\ [][Next]_vars

SpecSel == InitSel /\ [][NextStack]_vars

SpecDup == InitDup /\ [][NextStack]_vars

NextPreview ==
    \/ Preview
    \/ CheckFiles
    \/ LoadFile
    \/ NoValidData
    \/ Reconcile
    \/ SelectColumns
    \/ StackCombine
    \/ Serialize

SpecPreview == InitPrev /\ [][NextPreview]_vars

NextApi ==
    \/ CheckFiles
    \/ LoadFile
    \/ NoValidData
    \/ Reconcile
    \/ SelectColumns
    \/ StackCombine
    \/ JoinKeys
    \/ JoinMerge
    \/ JoinSelect
    \/ Serialize
    \/ Respond

SpecApi == InitLoad /\ [][NextApi]_vars

-----------------------------------------------------------------------------
(* Vocabulary of the claims *)

(* the columns of a loaded Source Table: the columns of the frame, without
   the provenance column when the loader added one *)
TableCols(df) ==
    IF cfg.include_source_col /\ cfg.join_mode = "stack"
    THEN SelectSeq(df.columns, LAMBDA c : c # Source_File)
    ELSE df.columns

(* the matching rule: names compared lower-cased when case_insensitive *)
Matches(a, b) == IF cfg.case_insensitive THEN lower(a) = lower(b) ELSE a = b

HasColumn(df, c) == \E i \in 1..Len(TableCols(df)) : Matches(TableCols(df)[i], c)

InEveryTable(c) == \A k \in 1..Len(dfs) : HasColumn(dfs[k], c)

Loaded == fi > Len(files) /\ dfs # <<>>

Succeeded == pc = "done" /\ result.buffer # None

Failed == pc = "done" /\ result.buffer = None

FailedWith(text) == Failed /\ result.message[1] = text

StackMode == cfg.join_mode = "stack"

(* the loaded table a row of the combined table was read from *)
TableOf(row) ==
    dfs[CHOOSE k \in 1..Len(dfs) : dfs[k].file = row.src[1] /\ dfs[k].sheet = row.src[2]]

(* the row as loaded *)
RowOf(row) == TableOf(row).rows[row.src[3]]

Positions(columns, c) == {i \in 1..Len(columns) : columns[i] = c}

-----------------------------------------------------------------------------
(* C1: merge_files_advanced never raises; it returns a success triple with
   buffer, column list and filename all present, or a failure triple with
   null buffer, null column list and an error message; the buffer is null
   exactly when the column list is null *)
C1_NeverRaises ==
    /\ pc # "raised"
    /\ pc = "done" =>
          \/ /\ result.buffer # None
             /\ result.columns # None
             /\ result.message[1] = "merged_data_"
          \/ /\ result.buffer = None
             /\ result.columns = None
             /\ result.message[1] \notin {"", "merged_data_"}

(* an exception of pandas was turned into a failure triple *)
C1_Witness == FailedWith("Merge Error: ")

(* C2 as stated: under intersection the master column list is exactly the
   columns of the first loaded table, in its order, whose name occurs (by
   the matching rule) in every loaded table *)
C2_IntersectionMaster ==
    (pc = "select" /\ cfg.strategy = "intersection")
        => master_cols = SelectSeq(TableCols(dfs[1]), InEveryTable)

AllTableCols == Flatten([k \in 1..Len(dfs) |-> TableCols(dfs[k])])

FirstSeen(cols) ==
    Pick(cols, [i \in 1..Len(cols) |-> ~\E j \in 1..(i - 1) : Matches(cols[j], cols[i])])

(* C3 as stated: under union the master column list holds every column of
   every loaded table once per logical column, in first-seen order over the
   tables in input order and each table's columns in table order *)
C3_UnionMaster ==
    (pc = "select" /\ cfg.strategy = "union") => master_cols = FirstSeen(AllTableCols)

NoSharedColumn == ~\E i \in 1..Len(TableCols(dfs[1])) : InEveryTable(TableCols(dfs[1])[i])

(* C4: under intersection, when no column is shared by all loaded tables the
   invocation fails with "No common columns found." and returns no buffer
   and no column list *)
C4_NoCommonColumns ==
    (StackMode /\ cfg.strategy = "intersection" /\ Loaded /\ NoSharedColumn
        /\ pc # "loaded")
        => /\ FailedWith("No common columns found.")
           /\ result.columns = None

C4_Witness ==
    /\ FailedWith("No common columns found.")
    /\ Len(dfs) = 2
    /\ cfg.case_insensitive
    /\ NoSharedColumn

(* the rows of the loaded tables in concatenation order *)
LoadedRows == Flatten([k \in 1..Len(dfs) |-> dfs[k].rows])

IsProvenance(c) == cfg.include_source_col /\ c = Source_File

(* the cells a loaded row has in the columns of its table that match c *)
ValuesUnder(row, c) ==
    LET t == TableOf(row)
    IN  {RowOf(row).cells[i] : i \in {j \in 1..Len(t.columns) :
            ~IsProvenance(t.columns[j]) /\ Matches(t.columns[j], c)}}

(* the cell the row should show under output column c *)
CarriesValue(row, p, c) ==
    IF HasColumn(TableOf(row), c)
    THEN row.cells[p] \in ValuesUnder(row, c)
    ELSE row.cells[p] = NaN

(* C5: in stack mode without de-duplication the output rows are the rows of
   the loaded tables in input order, each table's rows in their order, with
   their cell values under the output columns; the row count is the sum of
   the loaded tables' row counts *)
C5_StackRows ==
    (Succeeded /\ StackMode /\ ~cfg.remove_duplicates) =>
        /\ Len(merged_df.rows) = Len(LoadedRows)
        /\ \A r \in 1..Len(merged_df.rows) :
              /\ merged_df.rows[r].src = LoadedRows[r].src
              /\ \A p \in 1..Len(merged_df.columns) :
                    ~IsProvenance(merged_df.columns[p]) =>
                        CarriesValue(merged_df.rows[r], p, merged_df.columns[p])

C5_Witness ==
    /\ Succeeded /\ StackMode /\ ~cfg.remove_duplicates
    /\ Len(dfs) = 2
    /\ Len(dfs[1].rows) = 2
    /\ Len(dfs[2].rows) = 2
    /\ dfs[1].columns # dfs[2].columns
    /\ Len(merged_df.rows) = 4

(* the cells of a row of the output under the non-provenance columns *)
DataCells(row) ==
    Pick(row.cells, [p \in 1..Len(merged_df.columns) |-> merged_df.columns[p] # Source_File])

(* the same for a loaded row, under the output columns *)
LoadedCells(row) ==
    LET t == TableOf(row)
        cols == SelectSeq(merged_df.columns, LAMBDA c : c # Source_File)
    IN  [p \in 1..Len(cols) |->
            IF cols[p] \in Range(t.columns)
            THEN row.cells[CHOOSE i \in 1..Len(t.columns) : t.columns[i] = cols[p]]
            ELSE NaN]

Precedes(a, b) ==
    \/ a[1] < b[1]
    \/ a[1] = b[1] /\ a[2] < b[2]
    \/ a[1] = b[1] /\ a[2] = b[2] /\ a[3] < b[3]

(* C6: in stack mode with remove_duplicates no two output rows are equal on
   all non-provenance columns, and of every group of equal rows the first in
   concatenation order over all tables is the one kept.  (A table without
   columns has no cells to compare: pandas calls it empty.) *)
C6_Dedup ==
    (Succeeded /\ StackMode /\ cfg.remove_duplicates /\ ~empty(merged_df)) =>
        /\ \A r, q \in 1..Len(merged_df.rows) :
              DataCells(merged_df.rows[r]) = DataCells(merged_df.rows[q]) => r = q
        /\ \A q \in 1..Len(LoadedRows) :
              \E r \in 1..Len(merged_df.rows) :
                 /\ DataCells(merged_df.rows[r]) = LoadedCells(LoadedRows[q])
                 /\ ~Precedes(LoadedRows[q].src, merged_df.rows[r].src)

(* a row of the second file was dropped as a duplicate of a row of the first *)
C6_Witness ==
    /\ Succeeded /\ StackMode /\ cfg.remove_duplicates
    /\ Len(dfs) = 2
    /\ Len(merged_df.rows) = 2
    /\ Len(LoadedRows) = 4
    /\ \A r \in 1..2 : merged_df.rows[r].src[1] = 1

(* the first loaded table, in input order, that has the logical column c *)
FirstTableWith(c) ==
    dfs[CHOOSE k \in 1..Len(dfs) :
            /\ HasColumn(dfs[k], c)
            /\ \A h \in 1..(k - 1) : ~HasColumn(dfs[h], c)]

(* C7 as stated: in stack mode with case_insensitive every output column is
   spelled as in the first loaded table that has that logical column, and
   the rows of the tables that spell it differently show their values under
   it *)
C7_MasterSpelling ==
    (Succeeded /\ StackMode /\ cfg.case_insensitive) =>
        \A p \in 1..Len(merged_df.columns) :
            LET c == merged_df.columns[p]
            IN  ~IsProvenance(c) =>
                  /\ c \in Range(TableCols(FirstTableWith(c)))
                  /\ \A r \in 1..Len(merged_df.rows) :
                        HasColumn(TableOf(merged_df.rows[r]), c) =>
                            merged_df.rows[r].cells[p] \in ValuesUnder(merged_df.rows[r], c)

(* C8 as stated: under union every output row carries, for each master
   column its table has, the table's cell value, and the missing marker for
   each master column its table lacks *)
C8_UnionRows ==
    (Succeeded /\ StackMode /\ cfg.strategy = "union") =>
        \A m \in Range(master_cols) :
            /\ Positions(merged_df.columns, m) # {}
            /\ \A p \in Positions(merged_df.columns, m), r \in 1..Len(merged_df.rows) :
                  CarriesValue(merged_df.rows[r], p, m)

(* C9 as stated: with the provenance column enabled every output row's
   provenance cell is the filename of the input pair the row was read from,
   whatever the cleaning flags *)
C9_Provenance ==
    (Succeeded /\ StackMode /\ cfg.include_source_col) =>
        \A r \in 1..Len(merged_df.rows) :
            \A p \in Positions(merged_df.columns, Source_File) :
                merged_df.rows[r].cells[p] = files[merged_df.rows[r].src[1]].filename

(* the join-key values of the k-th loaded table and of the output *)
TableKeys(k) ==
    LET p == CHOOSE i \in 1..Len(dfs[k].columns) :
                 lower(dfs[k].columns[i]) = lower(cfg.join_key)
    IN  {dfs[k].rows[r].cells[p] : r \in 1..Len(dfs[k].rows)}

OutKeys ==
    LET p == CHOOSE i \in 1..Len(merged_df.columns) : merged_df.columns[i] = cfg.join_key
    IN  {merged_df.rows[r].cells[p] : r \in 1..Len(merged_df.rows)}

(* C10: in join mode the join-key values of the output are the intersection
   (inner), the union (outer), the first table's (left) or the last table's
   (right) key values of the loaded tables *)
C10_JoinKeySets ==
    (Succeeded /\ ~StackMode) =>
        OutKeys =
            CASE cfg.join_mode = "inner" ->
                    {v \in TableKeys(1) : \A k \in 1..Len(dfs) : v \in TableKeys(k)}
              [] cfg.join_mode = "outer" -> UNION {TableKeys(k) : k \in 1..Len(dfs)}
              [] cfg.join_mode = "left" -> TableKeys(1)
              [] cfg.join_mode = "right" -> TableKeys(Len(dfs))

(* three tables joined on a key value that the middle one lacks *)
C10_Witness ==
    /\ Succeeded
    /\ cfg.join_mode = "right"
    /\ Len(dfs) = 3
    /\ TableKeys(1) = {k_1, k_2}
    /\ TableKeys(2) = {k_1}
    /\ TableKeys(3) = {k_2, NaN}
    /\ OutKeys = {k_2, NaN}

(* C11: in join mode, when at least one table has loaded and join_key is
   null or empty, the invocation fails with "Join key is required for
   horizontal merge." and returns no buffer and no column list; no key is
   looked up and no merge is attempted *)
C11_MissingJoinKey ==
    (~StackMode /\ Loaded /\ cfg.join_key = <<>> /\ pc # "loaded") =>
        /\ FailedWith("Join key is required for horizontal merge.")
        /\ result.columns = None
        /\ processed_dfs = <<>>
        /\ merged_df = NoFrame
        /\ mi = 2

(* two tables had loaded when the missing key was reported *)
C11_Witness ==
    /\ FailedWith("Join key is required for horizontal merge.")
    /\ Len(dfs) = 2
    /\ cfg.join_key = <<>>

(* the loaded table has no column equal to the join key ignoring case *)
LacksKey(df) == ~\E i \in 1..Len(df.columns) : lower(df.columns[i]) = lower(cfg.join_key)

(* the first input pair, in input order, with a loaded table lacking the key *)
OffendingFile ==
    CHOOSE f \in 1..Len(files) :
        /\ \E k \in 1..Len(dfs) : dfs[k].file = f /\ LacksKey(dfs[k])
        /\ \A k \in 1..Len(dfs) : LacksKey(dfs[k]) => dfs[k].file >= f

(* C12 as stated: in join mode, when some loaded table has no column equal
   to join_key ignoring case, the invocation fails with "Key '<key>' not
   found in file <n>." and no output, and n is the position, in input
   order, of the first input file with a table lacking the key *)
C12_JoinKeyNotFound ==
    (~StackMode /\ Loaded /\ cfg.join_key # <<>> /\ pc # "loaded"
        /\ \E k \in 1..Len(dfs) : LacksKey(dfs[k])) =>
        /\ FailedWith("Key '")
        /\ result.columns = None
        /\ result.message[4] = OffendingFile

(* the position of the join key in the accumulated result *)
KeyPos(df) == CHOOSE i \in 1..Len(df.columns) : df.columns[i] = cfg.join_key

(* the cells of an output row under the first n columns are those of a row
   of the accumulated result with the same key, or missing when there is
   no such row *)
KeepsValues(row, acc, n) ==
    LET key == row.cells[KeyPos(acc)]
    IN  IF \E l \in 1..Len(acc.rows) : acc.rows[l].cells[KeyPos(acc)] = key
        THEN \E l \in 1..Len(acc.rows) : SubSeq(row.cells, 1, n) = acc.rows[l].cells
        ELSE \A p \in 1..n : p # KeyPos(acc) => row.cells[p] = NaN

(* the cell of an output row at position q is the cell at position j of a
   row of the merged table with the same key, or missing *)
TakesValue(row, acc, right, q, j) ==
    LET key == row.cells[KeyPos(acc)]
        rk == CHOOSE i \in 1..Len(right.columns) : right.columns[i] = cfg.join_key
    IN  IF \E r \in 1..Len(right.rows) : right.rows[r].cells[rk] = key
        THEN \E r \in 1..Len(right.rows) :
                /\ right.rows[r].cells[rk] = key
                /\ row.cells[q] = right.rows[r].cells[j]
        ELSE row.cells[q] = NaN

(* C13: in join mode, when the k-th loaded table (k >= 2) is merged and one
   of its non-key columns has a name already present in the accumulated
   result, the result of the merge has both columns: every earlier column
   keeps its name, its position and its values, and the later table's
   column appears after them as <name>_F<k> with that table's values *)
C13_SuffixKeepsBoth ==
    [][(pc = "merge" /\ pc' \in {"merge", "join_select"}) =>
          LET acc == merged_df
              out == merged_df'
              right == processed_dfs[mi]
              n == Len(acc.columns)
          IN  \A j \in 1..Len(right.columns) :
                 (right.columns[j] # cfg.join_key /\ right.columns[j] \in Range(acc.columns)) =>
                    /\ Len(out.columns) > n
                    /\ SubSeq(out.columns, 1, n) = acc.columns
                    /\ \A r \in 1..Len(out.rows) : KeepsValues(out.rows[r], acc, n)
                    /\ \E q \in (n + 1)..Len(out.columns) :
                          /\ out.columns[q] = right.columns[j] \o <<"_", "F">> \o str_int(mi)
                          /\ \A r \in 1..Len(out.rows) :
                                TakesValue(out.rows[r], acc, right, q, j)]_vars

(* three tables with the same value column were joined *)
C13_Witness ==
    /\ Succeeded
    /\ Len(dfs) = 3
    /\ merged_df.columns = <<c_id, c_v, c_v \o <<"_","F","2">>, c_v \o <<"_","F","3">>>>
    /\ Len(merged_df.rows) = 2

(* C14 as stated: in join mode with a non-empty allow-list the columns of
   the output are exactly the join key and the merged columns that are
   members of the allow-list; the join key is present whether or not the
   allow-list has it, and it appears once *)
C14_JoinAllowList ==
    [][(pc = "join_select" /\ cfg.selected_columns # <<>>) =>
          /\ Range(merged_df'.columns) =
                {cfg.join_key} \cup (Range(merged_df.columns) \cap Range(cfg.selected_columns))
          /\ Cardinality(Positions(merged_df'.columns, cfg.join_key)) = 1]_vars

(* the allow-list has an entry for the column, by the matching rule *)
Allowed(c) ==
    \E i \in 1..Len(cfg.selected_columns) : Matches(cfg.selected_columns[i], c)

(* the columns of short occur in long in the same relative order *)
KeepsOrder(short, long) ==
    \A i, j \in 1..Len(short) :
        i < j => \E a, b \in 1..Len(long) :
                    a < b /\ long[a] = short[i] /\ long[b] = short[j]

(* C15: in stack mode with an allow-list the final master column list is
   the master list of the strategy with every column the allow-list does
   not name removed and the remaining columns in their relative order,
   whatever the order of the allow-list, for intersection and for union *)
C15_StackAllowList ==
    [][(pc = "select" /\ cfg.selected_columns # <<>>) =>
          /\ Range(master_cols') = {c \in Range(master_cols) : Allowed(c)}
          /\ IsUnique(master_cols')
          /\ KeepsOrder(master_cols', master_cols)]_vars

(* an allow-list in the reverse of master order removed a column and left
   the other two in master order *)
C15_Witness ==
    /\ pc = "combine"
    /\ cfg.selected_columns = <<c_Name, c_id>>
    /\ master_cols = <<c_id, c_Name>>
    /\ Len(dfs) = 2
    /\ c_email \in Range(dfs[1].columns)
    /\ cfg.strategy = "union"

(* C16 as stated: with case_insensitive and an allow-list in stack mode,
   an allow-list entry selects a master column only if it equals the master
   spelling exactly *)
C16_ExactAllowList ==
    [][(pc = "select" /\ cfg.case_insensitive /\ cfg.selected_columns # <<>>) =>
          \A c \in Range(master_cols') : c \in Range(cfg.selected_columns)]_vars

(* C16 as amended: with case_insensitive and an allow-list in stack mode,
   an allow-list entry selects a master column exactly when it equals the
   master spelling ignoring letter case *)
C16_FoldedAllowList ==
    [][(pc = "select" /\ cfg.case_insensitive /\ cfg.selected_columns # <<>>) =>
          \A c \in Range(master_cols) :
              c \in Range(master_cols') <=>
                  \E e \in Range(cfg.selected_columns) : lower(e) = lower(c)]_vars

(* the entry ID selected the master column id *)
C16_Witness ==
    /\ pc = "combine"
    /\ cfg.case_insensitive
    /\ cfg.selected_columns = <<c_ID, c_email>>
    /\ master_cols = <<c_id>>

(* the tables the load loop reads, as <<input pair, sheet>>, in the order
   read: one per CSV file, the first or every sheet of a workbook *)
TablesRead ==
    Flatten([f \in 1..Len(files) |->
        [s \in 1..(IF cfg.all_sheets /\ ~is_csv(files[f].filename)
                   THEN Len(files[f].sheets) ELSE 1) |-> <<f, s>>]])

RawTable(t) == files[t[1]].sheets[t[2]]

HasRows(t) == RawTable(t).rows # <<>>

LoadDone == pc \notin {"start", "load"} /\ fi > Len(files)

(* C17: a table with zero rows is skipped at load time and gives no frame,
   no rows and no columns to the later stages, and every table with rows,
   of the other inputs and of the other sheets of the same file, is loaded
   with all its rows and, in stack mode, has them in the output *)
C17_EmptySkipped ==
    LoadDone =>
        /\ [k \in 1..Len(dfs) |-> <<dfs[k].file, dfs[k].sheet>>] = SelectSeq(TablesRead, HasRows)
        /\ \A k \in 1..Len(dfs) :
              Len(dfs[k].rows) = Len(RawTable(<<dfs[k].file, dfs[k].sheet>>).rows)
        /\ (Succeeded /\ StackMode /\ ~cfg.remove_duplicates) =>
              /\ \A i \in 1..Len(merged_df.columns) :
                    \/ merged_df.columns[i] = Source_File
                    \/ \E k \in 1..Len(TablesRead) :
                          /\ HasRows(TablesRead[k])
                          /\ merged_df.columns[i] \in Range(RawTable(TablesRead[k]).columns)
              /\ \A k \in 1..Len(TablesRead) :
                    \A r \in 1..Len(RawTable(TablesRead[k]).rows) :
                        \E q \in 1..Len(merged_df.rows) :
                            merged_df.rows[q].src = TablesRead[k] \o <<r>>

(* a workbook whose first sheet has no rows and a CSV file without rows
   were read, and the workbook's second sheet and a third file are merged *)
C17_Witness ==
    /\ Succeeded /\ StackMode
    /\ Len(files) = 3
    /\ Len(TablesRead) = 4
    /\ ~HasRows(TablesRead[1])
    /\ HasRows(TablesRead[2])
    /\ ~HasRows(TablesRead[3])
    /\ Len(merged_df.rows) = 2

(* the parser can read the table: the buffer parses and the sheet is not
   malformed *)
Loadable(t) == files[t[1]].readable /\ t[2] \notin files[t[1]].malformed

Usable(t) == Loadable(t) /\ HasRows(t)

(* C18 as stated: in stack mode an input file or sheet that cannot be
   loaded is skipped; as long as some table loads the invocation succeeds
   and the output has the rows of every table that does load *)
C18_LoadFailureSkipped ==
    (pc = "done" /\ StackMode /\ ~cfg.remove_duplicates
        /\ \E k \in 1..Len(TablesRead) : Usable(TablesRead[k])) =>
        /\ Succeeded
        /\ \A k \in 1..Len(TablesRead) :
              Usable(TablesRead[k]) =>
                  \A r \in 1..Len(RawTable(TablesRead[k]).rows) :
                      \E q \in 1..Len(merged_df.rows) :
                          merged_df.rows[q].src = TablesRead[k] \o <<r>>

(* C19 as stated: when no input yields a table with rows, because every
   input fails to load or has zero rows, the invocation fails with "No
   valid data found." before any reconciliation, key lookup, merge or
   serialization *)
C19_NoValidData ==
    (pc = "done" /\ files # <<>>
        /\ \A k \in 1..Len(TablesRead) : ~Usable(TablesRead[k])) =>
        /\ FailedWith("No valid data found.")
        /\ master_cols = <<>>
        /\ processed_dfs = <<>>
        /\ merged_df = NoFrame

DotXlsx == <<".","x","l","s","x">>

DotXls == <<".","x","l","s">>

(* the filename has neither the .csv nor a spreadsheet extension *)
Unsupported(filename) ==
    /\ ~endswith(lower(filename), DotCsv)
    /\ ~endswith(lower(filename), DotXlsx)
    /\ ~endswith(lower(filename), DotXls)

ErrorKinds ==
    {"No files provided.", "No valid data found.", "No common columns found.",
     "Join key is required for horizontal merge.", "Key '", "Merge Error: "}

(* C20 as stated: an input whose filename has neither the .csv nor a
   spreadsheet extension makes the invocation fail with an error of its
   own kind, and no parser is run on the file: no table is loaded from it *)
C20_UnsupportedFormat ==
    (pc = "done" /\ \E f \in 1..Len(files) : Unsupported(files[f].filename)) =>
        /\ Failed
        /\ result.message[1] \notin ErrorKinds
        /\ \A k \in 1..Len(dfs) : ~Unsupported(files[dfs[k].file].filename)

(* the table as read that the loaded frame comes from *)
RawOf(df) == files[df.file].sheets[df.sheet]

(* the first column of the table as read whose trimmed name is c *)
FirstNamed(raw, c) ==
    CHOOSE i \in 1..Len(raw.columns) :
        /\ strip(raw.columns[i]) = c
        /\ \A h \in 1..(i - 1) : strip(raw.columns[h]) # c

(* C21: every loaded table has pairwise distinct column names, the trimmed
   names of the table as read; of the columns with the same trimmed name
   the first is the one kept, with its own values *)
C21_UniqueTrimmedColumns ==
    \A k \in 1..Len(dfs) :
        LET raw == RawOf(dfs[k])
            cols == TableCols(dfs[k])
        IN  /\ IsUnique(dfs[k].columns)
            /\ Range(cols) = {strip(raw.columns[i]) : i \in 1..Len(raw.columns)}
            /\ \A p \in 1..Len(cols), r \in 1..Len(dfs[k].rows) :
                  dfs[k].rows[r].cells[p] = raw.rows[r][FirstNamed(raw, cols[p])]

(* a table read with the headers " id", "v", "id" is loaded with the
   columns id and v, id holding the cells of " id" *)
C21_Witness ==
    /\ Len(dfs) = 1
    /\ RawOf(dfs[1]).columns = <<c_id_lead, c_v, c_id>>
    /\ TableCols(dfs[1]) = <<c_id, c_v>>
    /\ dfs[1].rows[1].cells[1] = <<"1">>

(* the last four characters of the filename are .csv in any letter case *)
EndsInCsv(filename) ==
    /\ Len(filename) >= 4
    /\ lower(SubSeq(filename, Len(filename) - 3, Len(filename))) = DotCsv

SomeInputNotCsv == \E f \in 1..Len(files) : ~EndsInCsv(files[f].filename)

(* C22: on success the output is a spreadsheet named merged_data_<join
   mode>.xlsx if and only if some input filename does not end in .csv,
   compared ignoring case, and otherwise CSV named merged_data_<join
   mode>.csv *)
C22_OutputFormat ==
    Succeeded =>
        IF SomeInputNotCsv
        THEN /\ result.buffer[1].format = "xlsx"
             /\ result.message = <<"merged_data_", cfg.join_mode, ".xlsx">>
        ELSE /\ result.buffer[1].format = "csv"
             /\ result.message = <<"merged_data_", cfg.join_mode, ".csv">>

(* B.CSV and a.csv were merged into a CSV output *)
C22_Witness ==
    /\ Succeeded
    /\ Len(files) = 2
    /\ files[1].filename = f_B
    /\ files[2].filename = f_a
    /\ result.message = <<"merged_data_", "outer", ".csv">>

(* C23 as stated: for the same inputs, strategy and case_insensitive flag
   the column list preview_common_columns returns is the master column
   list merge_files_advanced computes in stack mode without allow-list:
   same names, same spelling, same order *)
C23_PreviewIsMaster ==
    (preview.called /\ pc = "select" /\ cfg.selected_columns = <<>>) =>
        preview.columns = master_cols

(* C24 as stated: for a fixed input sequence, strategy and case_insensitive
   flag every run returns the same column order; the merge engine builds
   its master list from lists alone, so the runs that can differ are those
   of preview_common_columns: every list a run of it can return is the list
   this run returned *)
C24_Deterministic ==
    preview.called =>
        \A again \in preview_common_columns(files, cfg.strategy, cfg.case_insensitive) :
            again.columns = preview.columns

(* the first input pair cannot be read *)
FirstUnreadable == ~files[1].readable \/ 1 \in files[1].malformed

(* a cell as the grid shows it: a missing cell is the empty string *)
Shown(cell) == IF cell = NaN THEN <<>> ELSE cell

(* C26: the sample grid is the header row of the first input's trimmed
   column names followed by its first rows, at most 5, and nothing of any
   other input; it is empty when the first input cannot be read *)
C26_SampleGrid ==
    preview.called =>
        IF files = <<>> \/ FirstUnreadable
        THEN preview.sample = <<>>
        ELSE LET first == files[1].sheets[1]
                 grid == preview.sample
             IN  /\ Len(grid) >= 1
                 /\ Len(grid) - 1 <= 5
                 /\ Len(grid) - 1 = (IF Len(first.rows) < 5 THEN Len(first.rows) ELSE 5)
                 /\ grid[1] = [i \in 1..Len(first.columns) |-> strip(first.columns[i])]
                 /\ \A r \in 1..(Len(grid) - 1) :
                        grid[r + 1] = [i \in 1..Len(first.rows[r]) |-> Shown(first.rows[r][i])]

(* the first of two inputs has six rows and the grid has its header and
   its first five rows *)
C26_Witness ==
    /\ preview.called
    /\ Len(files) = 2
    /\ Len(files[1].sheets[1].rows) = 6
    /\ files[2].readable
    /\ Len(preview.sample) = 6
    /\ preview.sample[6] = <<<<"5">>>>

(* C25 as stated: for the same inputs and case_insensitive flag, the names
   of the master list of the intersection strategy are among the names of
   the master list the union strategy computes *)
C25_IntersectionInUnion ==
    (pc = "select" /\ cfg.strategy = "intersection") =>
        Range(master_cols) \subseteq Range(union_master(dfs, cfg.case_insensitive))

(* C27 as stated: on every successful merge, in stack mode and in join
   mode, the returned column list has no name twice *)
C27_NoDuplicateOutputColumns ==
    Succeeded => IsUnique(result.columns[1])

(* C28 as stated: in stack mode with the provenance column enabled the
   returned column list is the master column list in master order followed
   by the provenance column as the last column *)
C28_ProvenanceLast ==
    (Succeeded /\ StackMode /\ cfg.include_source_col) =>
        result.columns[1] = master_cols \o <<Source_File>>

(* C29 as stated: every successful stack-mode merge has at least one
   output column other than the provenance column; when the allow-list
   leaves no master column the invocation fails *)
C29_SomeDataColumn ==
    (pc = "done" /\ StackMode /\ Loaded) =>
        /\ Succeeded => \E i \in 1..Len(result.columns[1]) :
                            ~IsProvenance(result.columns[1][i])
        /\ master_cols = <<>> => Failed

(* C30 as stated: when the engine reports a failure (null buffer) to the
   endpoint, the HTTP response has status 400 and carries the engine's
   error message *)
C30_FailureIs400 ==
    (Failed /\ response.sent) =>
        /\ response.status_code = 400
        /\ response.error = result.message

=============================================================================
